---- MODULE Spec2Model ----
(***************************************************************************)
(* typescript-json-api: the schema combinators and the recursive           *)
(* validation engine of src/shared/api.ts, the API revive operations, and  *)
(* the express wrapper of src/server/express.ts.                           *)
(*                                                                         *)
(* Values are JavaScript values, schemas are the values a SchemaField can  *)
(* hold at run time, and a validation is an operator that returns either   *)
(* the value the code returns or the Error it throws.                      *)
(***************************************************************************)
EXTENDS Integers, Sequences, FiniteSets, TLC

(***************************************************************************)
(* JavaScript values.  Every value is a record of the same shape so that   *)
(* any two can be compared: t is the run-time type, s the string payload,  *)
(* n the numeric payload (a number, a boolean as 0/1, a Date's epoch       *)
(* milliseconds), kids the own enumerable entries in own-key order of      *)
(* insertion (array elements carry the key "").                            *)
(***************************************************************************)
Undefined == [t |-> "undefined", s |-> "", n |-> 0, kids |-> <<>>]
Null == [t |-> "null", s |-> "", n |-> 0, kids |-> <<>>]
Num(n) == [t |-> "number", s |-> "", n |-> n, kids |-> <<>>]
Str(s) == [t |-> "string", s |-> s, n |-> 0, kids |-> <<>>]
Bool(b) == [t |-> "boolean", s |-> "", n |-> IF b THEN 1 ELSE 0, kids |-> <<>>]
Function == [t |-> "function", s |-> "", n |-> 0, kids |-> <<>>]
Entry(k, v) == [k |-> k, v |-> v]
Arr(elems) == [t |-> "array", s |-> "", n |-> 0,
               kids |-> [i \in 1..Len(elems) |-> Entry("", elems[i])]]
Obj(entries) == [t |-> "object", s |-> "", n |-> 0, kids |-> entries]

KeysOf(entries) == {entries[i].k : i \in 1..Len(entries)}
SeqKeys(entries) == [i \in 1..Len(entries) |-> entries[i].k]

\* The names every object literal inherits from Object.prototype: the `in`
\* operator and a property read obj[f] both see them.
ObjectPrototypeKeys ==
    {"constructor", "toString", "toLocaleString", "valueOf", "hasOwnProperty",
     "isPrototypeOf", "propertyIsEnumerable", "__proto__"}

\* Canonical array-index property names: an object enumerates them first, in
\* ascending order, before its other keys in insertion order.
ArrayIndexKeys == <<"0", "1", "2">>

IsIndexKey(k) == \E i \in 1..Len(ArrayIndexKeys) : ArrayIndexKeys[i] = k

RECURSIVE IndexEntries(_, _)
IndexEntries(entries, i) ==
    IF i > Len(ArrayIndexKeys) THEN <<>>
    ELSE SelectSeq(entries, LAMBDA e : e.k = ArrayIndexKeys[i])
         \o IndexEntries(entries, i + 1)

\* The own enumerable entries of an object in the order _.forOwn and
\* _.mapValues visit them.
OwnEntries(entries) ==
    IndexEntries(entries, 1) \o SelectSeq(entries, LAMBDA e : ~IsIndexKey(e.k))

HasOwn(obj, f) == f \in KeysOf(obj.kids)

\* obj[f]: the own property when there is one, else what the prototype chain
\* gives (a method of Object.prototype, or the prototype itself), else
\* undefined.
Get(obj, f) ==
    IF HasOwn(obj, f)
    THEN (CHOOSE e \in {obj.kids[i] : i \in 1..Len(obj.kids)} : e.k = f).v
    ELSE IF f = "__proto__" THEN Obj(<<>>)
    ELSE IF f \in ObjectPrototypeKeys THEN Function
    ELSE Undefined

isPlainObject(v) == v.t = "object"
isArray(v) == v.t = "array"

(***************************************************************************)
(* Schemas.  kind names the combinator that built the function (or         *)
(* "object" for a plain mapping of field name to SchemaField, "null" for   *)
(* the null schema); s and opt hold the combinator's options; subs hold    *)
(* the inner schemas, for an object schema the fields in declaration       *)
(* order.                                                                  *)
(***************************************************************************)
Schema(kind, s, opt, subs) == [kind |-> kind, s |-> s, opt |-> opt, subs |-> subs]
Sub(k, v) == [k |-> k, v |-> v]

number == Schema("number", "", "", <<>>)
string == Schema("string", "", "", <<>>)
stringNonEmpty == Schema("string", "", "nonEmpty", <<>>)
literal(l) == Schema("literal", l, "", <<>>)
nulll == Schema("nulll", "", "", <<>>)
boolean == Schema("boolean", "", "", <<>>)
booleanVal(b) == Schema("boolean", "", IF b THEN "true" ELSE "false", <<>>)
date == Schema("date", "", "", <<>>)
optional(schema) == Schema("optional", "", "", <<Sub("", schema)>>)
values(schema) == Schema("values", "", "", <<Sub("", schema)>>)
or(s1, s2) == Schema("or", "", "", <<Sub("", s1), Sub("", s2)>>)
baseArray(innerType) == Schema("baseArray", "", "", <<Sub("", innerType)>>)
array(innerType) == Schema("array", "", "", <<Sub("", innerType)>>)
ObjectSchema(fields) == Schema("object", "", "", fields)
NullSchema == Schema("null", "", "", <<>>)

FunctionKinds ==
    {"number", "string", "literal", "nulll", "boolean", "date", "optional",
     "values", "or", "baseArray", "array"}

isFunction(schema) == schema.kind \in FunctionKinds

\* field in schema
In(field, schema) == field \in KeysOf(schema.subs) \/ field \in ObjectPrototypeKeys

keyConcat(k, f) == IF k = "" THEN f ELSE k \o "." \o f

(***************************************************************************)
(* Outcomes.  An Error's message is pre \o key \o post, kept in its three  *)
(* parts; at is the dot-joined path from the root of the place where the   *)
(* Error was raised.  calls counts the invocations of validateSchemaField  *)
(* made while computing the outcome.                                       *)
(***************************************************************************)
NoError == [pre |-> "", key |-> "", post |-> "", at |-> ""]
Error(pre, key, post, at) == [pre |-> pre, key |-> key, post |-> post, at |-> at]
Return(v) == [ok |-> TRUE, val |-> v, err |-> NoError, calls |-> 0]
Throw(e) == [ok |-> FALSE, val |-> Undefined, err |-> e, calls |-> 0]
Spent(r, n) == [r EXCEPT !.calls = @ + n]
Message(e) == e.pre \o e.key \o e.post

(***************************************************************************)
(* new Date(val).valueOf().  ECMAScript fixes the result for numbers,      *)
(* booleans, null, undefined, Dates and strings in the date-time string    *)
(* format; any other string is parsed by a rule of the host.  host is the  *)
(* JavaScript engine the program runs on: "legacy" accepts the numeric     *)
(* strings and comma lists that array-to-string conversion produces (and   *)
(* reads them in local time, so the instant is kept as the parsed text),   *)
(* "strict" rejects them.                                                  *)
(***************************************************************************)
VARIABLE host

NaN == [nan |-> TRUE, ms |-> 0, s |-> ""]
Instant(ms) == [nan |-> FALSE, ms |-> ms, s |-> ""]
HostInstant(s) == IF host = "legacy" THEN [nan |-> FALSE, ms |-> 0, s |-> s] ELSE NaN

\* Date.parse on the strings of the date-time string format used here.
DateParse(s) ==
    IF s = "1970-01-01" THEN Instant(0)
    ELSE IF s = "1970-01-02" THEN Instant(86400000)
    ELSE NaN

RECURSIVE DateValue(_)
DateValue(v) ==
    CASE v.t = "number" -> Instant(v.n)
      [] v.t = "boolean" -> Instant(v.n)
      [] v.t = "null" -> Instant(0)
      [] v.t = "date" -> [nan |-> FALSE, ms |-> v.n, s |-> v.s]
      [] v.t = "string" -> DateParse(v.s)
      [] v.t = "array" ->
            IF Len(v.kids) = 0 THEN NaN
            ELSE IF Len(v.kids) > 1 THEN HostInstant("list")
            ELSE LET e == v.kids[1].v IN
                 CASE e.t = "string" -> DateParse(e.s)
                   [] e.t = "number" -> HostInstant(ToString(e.n))
                   [] e.t = "array" -> DateValue(e)
                   [] OTHER -> NaN
      [] OTHER -> NaN

(***************************************************************************)
(* Schemas: the leaf validators.  Each takes (key, val) and returns or     *)
(* throws.                                                                 *)
(***************************************************************************)
Schemas_number(k, v) ==
    IF v.t = "number" THEN Return(v)
    ELSE Throw(Error("Field ", k, " must be a number", k))

Schemas_string(opt, k, v) ==
    IF v.t = "string"
    THEN IF opt = "nonEmpty" /\ Len(v.s) = 0
         THEN Throw(Error("Field ", k, " cannot be an empty string", k))
         ELSE Return(v)
    ELSE Throw(Error("Field ", k, " must be a string", k))

Schemas_literal(l, k, v) ==
    IF v # Str(l) THEN Throw(Error("Field ", k, " must be " \o l, k))
    ELSE Return(Str(l))

Schemas_nulll(k, v) ==
    IF v # Null THEN Throw(Error("Field ", k, " must be null", k))
    ELSE Return(Null)

Schemas_boolean(opt, k, v) ==
    IF v.t = "boolean"
    THEN IF opt # "" /\ v # Bool(opt = "true")
         THEN Throw(Error("Field ", k, " must be " \o opt, k))
         ELSE Return(v)
    ELSE Throw(Error("Field ", k, " must be a boolean", k))

Schemas_date(k, v) ==
    LET d == DateValue(v) IN
    IF d.nan THEN Throw(Error("Field ", k, " must be a date", k))
    ELSE Return([t |-> "date", s |-> d.s, n |-> d.ms, kids |-> <<>>])

(***************************************************************************)
(* The engine and the combinators that call back into it.                  *)
(***************************************************************************)
RECURSIVE validateSchemaField(_, _, _)
RECURSIVE validateSchema(_, _, _)
RECURSIVE MapElements(_, _, _, _, _, _)
RECURSIVE MapEntries(_, _, _, _, _, _)
RECURSIVE MapFields(_, _, _, _, _, _)

\* _.map(val, innerVal => validator(innerType, key, innerVal)): elements in
\* order, the first throw ends the map.
MapElements(innerType, k, elems, i, acc, calls) ==
    IF i > Len(elems) THEN Spent(Return(Arr(acc)), calls)
    ELSE LET r == validateSchemaField(innerType, k, elems[i].v) IN
         IF r.ok
         THEN MapElements(innerType, k, elems, i + 1, Append(acc, r.val), calls + r.calls)
         ELSE Spent(r, calls)

\* _.mapValues(val, (innerVal, innerKey) => validator(schema, keyConcat(key, innerKey), innerVal))
MapEntries(inner, k, entries, i, acc, calls) ==
    IF i > Len(entries) THEN Spent(Return(Obj(acc)), calls)
    ELSE LET r == validateSchemaField(inner, keyConcat(k, entries[i].k), entries[i].v) IN
         IF r.ok
         THEN MapEntries(inner, k, entries, i + 1,
                         Append(acc, Entry(entries[i].k, r.val)), calls + r.calls)
         ELSE Spent(r, calls)

Schemas_optional(inner, k, v) ==
    IF v = Undefined THEN Return(Undefined)
    ELSE validateSchemaField(inner, k, v)

Schemas_values(inner, k, v) ==
    IF ~isPlainObject(v) THEN Throw(Error("Field ", k, " must be an object", k))
    ELSE MapEntries(inner, k, OwnEntries(v.kids), 1, <<>>, 0)

\* or() that reports the first alternative's failure when both fail.
Schemas_or_FirstFailure(s1, s2, k, v) ==
    LET r1 == validateSchemaField(s1, k, v)
        r2 == validateSchemaField(s2, k, v) IN
    IF r1.ok THEN r1
    ELSE IF r2.ok THEN Spent(r2, r1.calls)
    ELSE Spent(r1, r2.calls)

Schemas_or(s1, s2, k, v) ==
    LET r1 == validateSchemaField(s1, k, v) IN
    IF r1.ok THEN r1
    ELSE Spent(validateSchemaField(s2, k, v), r1.calls)

Schemas_baseArray(innerType, k, v) ==
    IF ~isArray(v) THEN Throw(Error("Field ", k, " must be an array", k))
    ELSE MapElements(innerType, k, v.kids, 1, <<>>, 0)

\* array() without the _.isArray check: _.map of a non-array scalar is [].
Schemas_array_Unchecked(innerType, k, v) ==
    MapElements(innerType, k, v.kids, 1, <<>>, 0)

Schemas_array(innerType, k, v) ==
    IF ~isArray(v) THEN Throw(Error("Field ", k, " must be an array", k))
    ELSE MapElements(innerType, k, v.kids, 1, <<>>, 0)

\* (schema as SchemaBase<T>)(key, val, API.validateSchemaField)
Apply(s, k, v) ==
    CASE s.kind = "number" -> Schemas_number(k, v)
      [] s.kind = "string" -> Schemas_string(s.opt, k, v)
      [] s.kind = "literal" -> Schemas_literal(s.s, k, v)
      [] s.kind = "nulll" -> Schemas_nulll(k, v)
      [] s.kind = "boolean" -> Schemas_boolean(s.opt, k, v)
      [] s.kind = "date" -> Schemas_date(k, v)
      [] s.kind = "optional" -> Schemas_optional(s.subs[1].v, k, v)
      [] s.kind = "values" -> Schemas_values(s.subs[1].v, k, v)
      [] s.kind = "or" -> Schemas_or(s.subs[1].v, s.subs[2].v, k, v)
      [] s.kind = "baseArray" -> Schemas_baseArray(s.subs[1].v, k, v)
      [] s.kind = "array" -> Schemas_array(s.subs[1].v, k, v)

\* The first own key of obj, in _.forOwn's order, that is not `in` the schema;
\* 0 when there is none.
FirstExtraneous(s, entries) ==
    LET bad == {i \in 1..Len(entries) : ~In(entries[i].k, s)} IN
    IF bad = {} THEN 0 ELSE CHOOSE i \in bad : \A j \in bad : i <= j

\* _.mapValues(schema, (s, f) => API.validateSchemaField(s, keyConcat(key, f), obj[f]))
MapFields(fields, obj, k, i, acc, calls) ==
    IF i > Len(fields) THEN Spent(Return(Obj(acc)), calls)
    ELSE LET r == validateSchemaField(fields[i].v, keyConcat(k, fields[i].k),
                                      Get(obj, fields[i].k)) IN
         IF r.ok
         THEN MapFields(fields, obj, k, i + 1,
                        Append(acc, Entry(fields[i].k, r.val)), calls + r.calls)
         ELSE Spent(r, calls)

validateSchema(s, obj, k) ==
    IF s = NullSchema
    THEN IF obj # Null /\ obj # Undefined
         THEN Throw(Error("Object ", k, " must be null", k))
         ELSE Return(Null)
    ELSE IF ~isPlainObject(obj)
    THEN Throw(Error("Object ", k, " must be an object", k))
    ELSE LET own == OwnEntries(obj.kids)
             x == FirstExtraneous(s, own) IN
         IF x # 0
         THEN Throw(Error("Extraneous field ", own[x].k, "", keyConcat(k, own[x].k)))
         ELSE MapFields(OwnEntries(s.subs), obj, k, 1, <<>>, 0)

validateSchemaField(s, k, v) ==
    IF isFunction(s) THEN Spent(Apply(s, k, v), 1)
    ELSE IF s.kind = "object" THEN Spent(validateSchema(s, v, k), 1)
    ELSE Spent(Throw(Error("impossible for schema to be neither", "", "", k)), 1)

(***************************************************************************)
(* JSON text.  A text is the empty string, a text that is not well-formed  *)
(* JSON, or the well-formed text of a value.                               *)
(***************************************************************************)
EmptyText == [kind |-> "empty", v |-> Undefined]
MalformedText == [kind |-> "malformed", v |-> Undefined]
JsonText(v) == [kind |-> "json", v |-> v]

\* Date.prototype.toISOString for the instants of this model.
toISOString(d) ==
    IF d.s # "" THEN "local:" \o d.s
    ELSE IF d.n = 0 THEN "1970-01-01T00:00:00.000Z"
    ELSE IF d.n = 86400000 THEN "1970-01-02T00:00:00.000Z"
    ELSE "1970-01-01T00:00:00.000Z+" \o ToString(d.n) \o "ms"

RECURSIVE Serializable(_)
\* What JSON.stringify writes for v: entries holding undefined or a function
\* are left out of an object and written as null in an array, a Date is
\* written as a string.
Serializable(v) ==
    CASE v.t = "object" ->
            LET kept == SelectSeq(v.kids, LAMBDA e : e.v.t \notin {"undefined", "function"}) IN
            Obj([i \in 1..Len(kept) |-> Entry(kept[i].k, Serializable(kept[i].v))])
      [] v.t = "array" ->
            [v EXCEPT !.kids = [i \in 1..Len(v.kids) |->
                Entry("", IF v.kids[i].v.t \in {"undefined", "function"} THEN Null
                          ELSE Serializable(v.kids[i].v))]]
      [] v.t = "date" -> Str(toISOString(v))
      [] OTHER -> v

JSON_stringify(v) == JsonText(Serializable(v))

\* JSON.parse: a SyntaxError for the empty string and for malformed text.
JSON_parse(text) ==
    IF text.kind = "json" THEN Return(text.v)
    ELSE Throw(Error("SyntaxError", "", "", ""))

(***************************************************************************)
(* The empty response and the API class.  A schema held by an API is a     *)
(* reference: ref tells whether it is the module's emptySchema object      *)
(* itself, s is the schema the object holds.                               *)
(***************************************************************************)
EmptyResponseValue == Obj(<<Entry("isEmptyResponse", Bool(TRUE))>>)

emptySchema ==
    [ref |-> "emptySchema",
     s |-> ObjectSchema(<<Sub("isEmptyResponse", booleanVal(TRUE))>>)]

Other(s) == [ref |-> "other", s |-> s]

API(path, requestSchema, responseSchema) ==
    [path |-> path, requestSchema |-> requestSchema, responseSchema |-> responseSchema]

reviveRequest(a, request) ==
    LET text == IF request = EmptyText THEN JSON_stringify(EmptyResponseValue) ELSE request
        parsed == JSON_parse(text) IN
    IF parsed.ok THEN validateSchema(a.requestSchema.s, parsed.val, "") ELSE parsed

\* reviveResponse that parses the empty string as it is.
reviveResponse_NoSentinel(a, response) ==
    LET parsed == JSON_parse(response) IN
    IF parsed.ok THEN validateSchema(a.responseSchema.s, parsed.val, "") ELSE parsed

reviveResponse(a, response) ==
    LET text == IF response = EmptyText THEN JSON_stringify(EmptyResponseValue) ELSE response
        parsed == JSON_parse(text) IN
    IF parsed.ok THEN validateSchema(a.responseSchema.s, parsed.val, "") ELSE parsed

\* 'code' in r && 'message' in r, for an object r
isErrorResponse(r) ==
    /\ HasOwn(r, "code") \/ "code" \in ObjectPrototypeKeys
    /\ HasOwn(r, "message") \/ "message" \in ObjectPrototypeKeys

(***************************************************************************)
(* The inputs: the schemas a program declares, the values and texts it is  *)
(* sent, the results its handlers produce.                                 *)
(***************************************************************************)
MaxLen == 2

RECURSIVE SeqsUpTo(_, _)
\* the sequences over S of length at most n
SeqsUpTo(S, n) ==
    IF n = 0 THEN {<<>>}
    ELSE LET shorter == SeqsUpTo(S, n - 1) IN
         shorter \cup {Append(q, x) : q \in shorter, x \in S}

Injective(q) == \A i, j \in 1..Len(q) : q[i] = q[j] => i = j

\* the entry lists with distinct keys from K, values from V, at most n entries
EntryLists(K, V, n) ==
    {q \in SeqsUpTo({Entry(k, v) : k \in K, v \in V}, n) : Injective(SeqKeys(q))}

Scalars == {Null, Num(1), Str(""), Str("a"), Bool(TRUE), Bool(FALSE), Str("1970-01-02")}
Elements == {Num(1), Str("a"), Null, Arr(<<Num(1)>>), Obj(<<Entry("b", Num(1))>>)}
Arrays == {Arr(q) : q \in SeqsUpTo(Elements, MaxLen)}
InnerObjects == {Obj(q) : q \in EntryLists({"b", "x"}, {Num(1), Str("a")}, 2)}
                \cup {Obj(<<Entry("b", Num(1)), Entry("toString", Num(1))>>)}

\* the values a field can hold
FieldValues == {Undefined} \cup Scalars \cup Arrays \cup InnerObjects

LeafSchemas ==
    {number, string, stringNonEmpty, literal("a"), nulll, boolean, booleanVal(TRUE), date}
InnerSchema == ObjectSchema(<<Sub("b", number)>>)
Alternatives == {number, string, nulll, date, NullSchema, InnerSchema}

\* the schemas a field can declare
FieldSchemas ==
    LeafSchemas \cup {NullSchema, InnerSchema}
    \cup {optional(s) : s \in {number, nulll, NullSchema, InnerSchema}}
    \cup {values(s) : s \in {number, NullSchema}}
    \cup {array(s) : s \in {number, string, NullSchema, array(number), InnerSchema}}
    \cup {baseArray(number)}
    \cup {or(s1, s2) : s1, s2 \in Alternatives}

FieldKeys == {"", "a", "a.b"}

DeclaredSchemas == {number, optional(number), date, InnerSchema, NullSchema}
DeclaredNames == {"a", "b"}

\* the object schemas an API declares, and the null schema
ObjectSchemas ==
    {ObjectSchema(q) : q \in EntryLists(DeclaredNames, DeclaredSchemas, 2)}
    \cup {ObjectSchema(<<Sub("b", number), Sub("1", number)>>),
          ObjectSchema(<<Sub("toString", optional(string))>>),
          ObjectSchema(<<Sub("a", InnerSchema), Sub("b", values(number))>>),
          ObjectSchema(<<Sub("a", stringNonEmpty), Sub("b", array(number))>>),
          ObjectSchema(<<Sub("isEmptyResponse", boolean)>>),
          ObjectSchema(<<Sub("isEmptyResponse", booleanVal(TRUE)), Sub("a", optional(number))>>),
          ObjectSchema(<<Sub("isEmptyResponse", booleanVal(TRUE)), Sub("a", number)>>)}

SchemaRefs == {emptySchema, Other(emptySchema.s), Other(NullSchema)}
              \cup {Other(s) : s \in ObjectSchemas}

SentValues == {Num(1), Str("a"), Obj(<<Entry("b", Num(1))>>),
               Obj(<<Entry("b", Num(1)), Entry("x", Num(1))>>)}
SentNames == {"a", "b", "toString"}

\* the texts a peer sends
Texts ==
    {EmptyText, MalformedText, JsonText(Null), JsonText(Arr(<<>>)),
     JsonText(EmptyResponseValue),
     JsonText(Obj(<<Entry("b", Str("a")), Entry("1", Str("a"))>>)),
     JsonText(Obj(<<Entry("a", Num(1)), Entry("x", Num(1))>>)),
     JsonText(Obj(<<Entry("x", Num(1)), Entry("a", Str("a"))>>)),
     JsonText(Obj(<<Entry("a", Str("")), Entry("b", Arr(<<Num(1), Str("a")>>))>>)),
     JsonText(Obj(<<Entry("a", Str("a")), Entry("b", Arr(<<Num(1), Num(1)>>))>>)),
     JsonText(Obj(<<Entry("a", Str("1970-01-02"))>>)),
     JsonText(Obj(<<Entry("b", Num(1)), Entry("1", Num(1))>>)),
     JsonText(Obj(<<Entry("a", Obj(<<Entry("b", Num(1))>>)),
                    Entry("b", Obj(<<Entry("x", Num(1)), Entry("y", Str("a"))>>))>>))}
    \cup {JsonText(Obj(q)) : q \in EntryLists(SentNames, SentValues, 2)}

\* the endpoints a server registers and the bodies it is posted
ServedSchemas ==
    {emptySchema, Other(emptySchema.s), Other(NullSchema),
     Other(ObjectSchema(<<Sub("a", number)>>)),
     Other(ObjectSchema(<<Sub("isEmptyResponse", boolean)>>))}
ServedAPIs == {API("/api", q, r) : q, r \in ServedSchemas}
Bodies == {EmptyText, MalformedText, JsonText(Null), JsonText(EmptyResponseValue),
           JsonText(Obj(<<Entry("a", Num(1))>>)), JsonText(Obj(<<Entry("a", Str("a"))>>)),
           JsonText(Obj(<<Entry("a", Num(1)), Entry("x", Num(1))>>))}

\* what a handler's promise resolves with
HandlerResults ==
    {Num(404), Null, Undefined,
     Obj(<<Entry("code", Num(403)), Entry("message", Str("a"))>>),
     Obj(<<Entry("a", Num(1))>>), EmptyResponseValue}

Hosts == {"strict", "legacy"}

NoAPI == API("", Other(NullSchema), Other(NullSchema))
NoOutcome == [ok |-> FALSE, val |-> Undefined, err |-> NoError, calls |-> 0]

(***************************************************************************)
(* State.  pc is where the program is: "idle" before a call, "validated"   *)
(* after a call of API.validateSchemaField, "revived" after the client's   *)
(* call of reviveResponse, and for a request in the express wrapper        *)
(* "pending" while the handler's promise is pending, "rejected" when the   *)
(* promise chain holds a rejection for .catch, "done" when wrap's          *)
(* callbacks have all run.  settled tells how the handler's promise        *)
(* settled, result what it resolved with.                                  *)
(***************************************************************************)
VARIABLES pc, api, body, schema, key, val, out, handlerCalls, settled, result, responses

vars == <<host, pc, api, body, schema, key, val, out, handlerCalls, settled, result, responses>>

Init ==
    /\ host \in Hosts
    /\ pc = "idle"
    /\ api = NoAPI
    /\ body = EmptyText
    /\ schema = NullSchema
    /\ key = ""
    /\ val = Undefined
    /\ out = NoOutcome
    /\ handlerCalls = 0
    /\ settled = "no"
    /\ result = Undefined
    /\ responses = <<>>

\* A caller validates val against a SchemaField.
ValidateSchemaField(s, k, v) ==
    /\ pc = "idle"
    /\ pc' = "validated"
    /\ schema' = s
    /\ key' = k
    /\ val' = v
    /\ out' = validateSchemaField(s, k, v)
    /\ UNCHANGED <<host, api, body, handlerCalls, settled, result, responses>>

\* The client revives the text of a response.
ReviveResponse(a, text) ==
    /\ pc = "idle"
    /\ pc' = "revived"
    /\ api' = a
    /\ body' = text
    /\ out' = reviveResponse(a, text)
    /\ UNCHANGED <<host, schema, key, val, handlerCalls, settled, result, responses>>

\* wrap that answers 400 and still goes on to call the handler.
Receive_NoReturn(a, text) ==
    /\ pc = "idle"
    /\ api' = a
    /\ body' = text
    /\ out' = reviveRequest(a, text)
    /\ responses' = IF out'.ok THEN responses ELSE Append(responses, 400)
    /\ handlerCalls' = handlerCalls + 1
    /\ pc' = "pending"
    /\ UNCHANGED <<host, schema, key, val, settled, result>>

\* wrap's function, up to the return of handler(apiRequest, user).
Receive(a, text) ==
    /\ pc = "idle"
    /\ api' = a
    /\ body' = text
    /\ out' = reviveRequest(a, text)
    /\ IF out'.ok
       THEN /\ handlerCalls' = handlerCalls + 1
            /\ pc' = "pending"
            /\ UNCHANGED responses
       ELSE /\ responses' = Append(responses, 400)
            /\ pc' = "done"
            /\ UNCHANGED handlerCalls
    /\ UNCHANGED <<host, schema, key, val, settled, result>>

\* The handler's promise resolves and the .then callback runs.
HandlerResolves(r) ==
    /\ pc = "pending"
    /\ settled' = "resolved"
    /\ result' = r
    /\ IF r.t = "number"
       THEN responses' = Append(responses, r.n) /\ pc' = "done"
       ELSE IF r = Null \/ r = Undefined
       THEN IF api.responseSchema.ref # emptySchema.ref
            THEN pc' = "rejected" /\ UNCHANGED responses
            ELSE responses' = Append(responses, 204) /\ pc' = "done"
       ELSE IF isErrorResponse(r)
       THEN responses' = Append(responses, Get(r, "code").n) /\ pc' = "done"
       ELSE responses' = Append(responses, 200) /\ pc' = "done"
    /\ UNCHANGED <<host, api, body, schema, key, val, out, handlerCalls>>

\* The handler's promise rejects.
HandlerRejects ==
    /\ pc = "pending"
    /\ settled' = "rejected"
    /\ pc' = "rejected"
    /\ UNCHANGED <<host, api, body, schema, key, val, out, handlerCalls, result, responses>>

\* The .catch callback runs.
Catch ==
    /\ pc = "rejected"
    /\ responses' = Append(responses, 500)
    /\ pc' = "done"
    /\ UNCHANGED <<host, api, body, schema, key, val, out, handlerCalls, settled, result>>

\* The call is over; the program waits for the next one.
Return_ ==
    /\ pc \in {"validated", "revived", "done"}
    /\ pc' = "idle"
    /\ api' = NoAPI
    /\ body' = EmptyText
    /\ schema' = NullSchema
    /\ key' = ""
    /\ val' = Undefined
    /\ out' = NoOutcome
    /\ handlerCalls' = 0
    /\ settled' = "no"
    /\ result' = Undefined
    /\ responses' = <<>>
    /\ UNCHANGED host

Next ==
    \/ /\ pc = "idle"
       /\ \E r \in SchemaRefs, text \in Texts :
             ReviveResponse(API("/api", emptySchema, r), text)
    \/ /\ pc = "idle"
       /\ \E s \in FieldSchemas, k \in FieldKeys, v \in FieldValues :
             ValidateSchemaField(s, k, v)
    \/ /\ pc = "idle"
       /\ \E a \in ServedAPIs, text \in Bodies : Receive(a, text)
    \/ /\ pc = "pending"
       /\ \E r \in HandlerResults : HandlerResolves(r)
    \/ HandlerRejects
    \/ Catch
    \/ Return_

Spec == Init /\ [][Next]_vars

(***************************************************************************)
(* What the claims speak of.                                               *)
(***************************************************************************)
\* A revive call has run: the client's reviveResponse, or the wrapper's
\* reviveRequest.
RevivedResponse == pc = "revived"
RevivedRequest == pc \in {"pending", "rejected", "done"}
RevivedSchema == IF RevivedResponse THEN api.responseSchema ELSE api.requestSchema

\* An object schema met a plain object: at the top level through a revive
\* call, or nested through validateSchemaField.
TopObjectCase ==
    /\ RevivedResponse
    /\ body.kind = "json"
    /\ api.responseSchema.s.kind = "object"
    /\ isPlainObject(body.v)
NestedObjectCase == pc = "validated" /\ schema.kind = "object" /\ isPlainObject(val)

Undeclared(s, obj) == KeysOf(obj.kids) \ KeysOf(s.subs)
IsExtraneousError(e) == e.pre = "Extraneous field "

\* C1: an input with an own key that the object schema does not declare is
\* always rejected with an extraneous-field error, whatever the key's name.
C1_UndeclaredKeyRejected ==
    /\ TopObjectCase /\ Undeclared(api.responseSchema.s, body.v) # {}
         => ~out.ok /\ IsExtraneousError(out.err)
    /\ NestedObjectCase /\ Undeclared(schema, val) # {}
         => ~out.ok /\ IsExtraneousError(out.err)

\* C2: after a successful validation against an object schema, a field
\* declared optional(inner) that the input does not hold is not a key of the
\* output, and every other declared field is a key of the output.
C2_AbsentOptionalOmitted ==
    TopObjectCase /\ out.ok =>
        \A i \in 1..Len(api.responseSchema.s.subs) :
            LET f == api.responseSchema.s.subs[i] IN
            IF f.v.kind = "optional" /\ ~HasOwn(body.v, f.k)
            THEN ~HasOwn(out.val, f.k)
            ELSE HasOwn(out.val, f.k)

\* C3 as stated: reviving the empty string succeeds with the sentinel for the
\* empty-response schema and fails for every other schema.
C3_EmptyTextFailsElsewhere ==
    (RevivedResponse \/ RevivedRequest) /\ body = EmptyText =>
        IF RevivedSchema.s = emptySchema.s
        THEN out.ok /\ out.val = EmptyResponseValue
        ELSE ~out.ok

\* C3 amended: reviving the empty string succeeds with the sentinel for the
\* empty-response schema; it fails with "must be null" for the null schema and
\* with an extraneous-field error naming isEmptyResponse for every object
\* schema that does not declare isEmptyResponse; a schema that declares it gets
\* the outcome of validating {isEmptyResponse: true}: accepted by
\* {isEmptyResponse: boolean()} and by the empty-response schema with a
\* further optional field, rejected when the further field is number().
C3_EmptyTextRevival ==
    (RevivedResponse \/ RevivedRequest) /\ body = EmptyText =>
        LET s == RevivedSchema.s IN
        /\ s = emptySchema.s => out.ok /\ out.val = EmptyResponseValue
        /\ s = NullSchema => ~out.ok /\ Message(out.err) = "Object  must be null"
        /\ s.kind = "object" /\ "isEmptyResponse" \notin KeysOf(s.subs)
             => ~out.ok /\ Message(out.err) = "Extraneous field isEmptyResponse"
        /\ s = ObjectSchema(<<Sub("isEmptyResponse", boolean)>>)
             => out.ok /\ out.val = EmptyResponseValue
        /\ s = ObjectSchema(<<Sub("isEmptyResponse", booleanVal(TRUE)),
                             Sub("a", optional(number))>>)
             => out.ok /\ Get(out.val, "isEmptyResponse") = Bool(TRUE)
        /\ s = ObjectSchema(<<Sub("isEmptyResponse", booleanVal(TRUE)), Sub("a", number)>>)
             => ~out.ok /\ Message(out.err) = "Field a must be a number"

\* The client revived the empty string for an API whose response schema is
\* emptySchema and got the sentinel.
C3_Witness ==
    /\ RevivedResponse
    /\ body = EmptyText
    /\ api.responseSchema = emptySchema
    /\ out.ok
    /\ out.val = EmptyResponseValue

\* C4: a null schema accepts exactly null and absent values and otherwise
\* fails with "must be null" at the path, as an API's top-level schema and
\* also where the null schema is handed to validateSchemaField (a field's
\* schema, or the inner schema of a combinator).
C4_NullSchemaEverywhere ==
    /\ (RevivedResponse \/ RevivedRequest) /\ body.kind = "json"
       /\ RevivedSchema.s = NullSchema
         => IF body.v \in {Null, Undefined} THEN out.ok /\ out.val = Null
            ELSE ~out.ok /\ Message(out.err) = "Object  must be null"
    /\ pc = "validated" /\ schema = NullSchema
         => IF val \in {Null, Undefined} THEN out.ok
            ELSE ~out.ok /\ out.err.key = key /\ out.err.post = " must be null"
    /\ pc = "validated" /\ schema = optional(NullSchema) /\ val = Null => out.ok
    /\ pc = "validated" /\ schema = array(NullSchema) /\ val = Arr(<<Null>>) => out.ok

\* C5: or(s1, s2) returns s1's result when s1 accepts the value, s2's result
\* when s1 rejects and s2 accepts, and fails only when both reject, with
\* exactly s2's failure.
C5_OrTriesInOrder ==
    pc = "validated" /\ schema.kind = "or" =>
        LET r1 == validateSchemaField(schema.subs[1].v, key, val)
            r2 == validateSchemaField(schema.subs[2].v, key, val) IN
        /\ r1.ok => out.ok /\ out.val = r1.val
        /\ ~r1.ok /\ r2.ok => out.ok /\ out.val = r2.val
        /\ ~r1.ok /\ ~r2.ok => ~out.ok /\ out.err = r2.err
        /\ ~out.ok => ~r1.ok /\ ~r2.ok

\* or(string(), number()) accepted a number through its second alternative.
C5_Witness ==
    /\ pc = "validated"
    /\ schema = or(string, number)
    /\ val = Num(1)
    /\ out.ok
    /\ out.val = Num(1)

RECURSIVE Conforms(_, _)
\* v conforms structurally and by type to schema s.
Conforms(s, v) ==
    CASE s.kind = "number" -> v.t = "number"
      [] s.kind = "string" -> v.t = "string" /\ (s.opt = "nonEmpty" => v.s # "")
      [] s.kind = "literal" -> v = Str(s.s)
      [] s.kind = "nulll" -> v = Null
      [] s.kind = "boolean" -> v.t = "boolean" /\ (s.opt # "" => v = Bool(s.opt = "true"))
      [] s.kind = "date" -> v.t \in {"string", "number"} /\ ~DateValue(v).nan
      [] s.kind = "optional" -> v = Undefined \/ Conforms(s.subs[1].v, v)
      [] s.kind = "values" ->
            v.t = "object" /\ \A i \in 1..Len(v.kids) : Conforms(s.subs[1].v, v.kids[i].v)
      [] s.kind = "or" -> Conforms(s.subs[1].v, v) \/ Conforms(s.subs[2].v, v)
      [] s.kind \in {"array", "baseArray"} ->
            v.t = "array" /\ \A i \in 1..Len(v.kids) : Conforms(s.subs[1].v, v.kids[i].v)
      [] s.kind = "object" ->
            /\ v.t = "object"
            /\ KeysOf(v.kids) \subseteq KeysOf(s.subs)
            /\ \A i \in 1..Len(s.subs) :
                 Conforms(s.subs[i].v,
                          IF HasOwn(v, s.subs[i].k) THEN Get(v, s.subs[i].k) ELSE Undefined)
      [] s.kind = "null" -> v = Null

RECURSIVE ObservablyEqual(_, _)
\* a and b have the same type, the same keys and the same values at every
\* nesting level.
ObservablyEqual(a, b) ==
    /\ a.t = b.t
    /\ a.s = b.s
    /\ a.n = b.n
    /\ IF a.t = "array"
       THEN /\ Len(a.kids) = Len(b.kids)
            /\ \A i \in 1..Len(a.kids) : ObservablyEqual(a.kids[i].v, b.kids[i].v)
       ELSE /\ KeysOf(a.kids) = KeysOf(b.kids)
            /\ \A k \in KeysOf(a.kids) : ObservablyEqual(Get(a, k), Get(b, k))

\* C6: a JSON-compatible value that conforms to the schema is accepted, and the
\* value returned is observably equal to it (an absent optional field is
\* absent from both).
C6_ConformingValueReturned ==
    /\ RevivedResponse /\ body.kind = "json" /\ Conforms(api.responseSchema.s, body.v)
         => out.ok /\ ObservablyEqual(out.val, body.v)
    /\ pc = "validated" /\ val # Undefined /\ Conforms(schema, val)
         => out.ok /\ ObservablyEqual(out.val, val)

IsValidationError(e) == e.pre \in {"Field ", "Object ", "Extraneous field "}

\* C7: every validation failure names the fully qualified, dot-joined path of
\* the place where it was raised.
C7_FailureCarriesFullPath ==
    pc \in {"validated", "revived"} /\ ~out.ok /\ IsValidationError(out.err)
        => out.err.key = out.err.at

RECURSIVE SumCalls(_, _)
SumCalls(rs, j) == IF j = 0 THEN 0 ELSE rs[j].calls + SumCalls(rs, j - 1)

\* C8: array(T) rejects a non-array with "must be an array"; for an array of
\* length n it returns the n results of validating the elements against T, in
\* order; it fails with the failure of the lowest-indexed element T rejects,
\* and validates no element after that one.
C8_ArrayMapsInOrder ==
    pc = "validated" /\ schema.kind = "array" =>
        IF ~isArray(val)
        THEN ~out.ok /\ Message(out.err) = "Field " \o key \o " must be an array"
        ELSE LET T == schema.subs[1].v
                 n == Len(val.kids)
                 rs == [i \in 1..n |-> validateSchemaField(T, key, val.kids[i].v)]
                 bad == {i \in 1..n : ~rs[i].ok} IN
             IF bad = {}
             THEN /\ out.ok
                  /\ out.val.t = "array"
                  /\ Len(out.val.kids) = n
                  /\ \A i \in 1..n : out.val.kids[i].v = rs[i].val
             ELSE LET j == CHOOSE i \in bad : \A i2 \in bad : i <= i2 IN
                  /\ ~out.ok
                  /\ out.err = rs[j].err
                  /\ out.calls = 1 + SumCalls(rs, j)

\* array(number()) met an array whose first element is rejected and that has
\* a later element.
C8_Witness ==
    /\ pc = "validated"
    /\ schema = array(number)
    /\ val = Arr(<<Str("a"), Num(1)>>)
    /\ ~out.ok
    /\ out.calls = 2

\* C9: object validation checks, in this order, that the input is a plain
\* mapping, that it holds no undeclared key, and then the declared fields in
\* declaration order: an input with an undeclared key fails with the
\* extraneous-field error before any field is validated, and otherwise the
\* failure is that of the first invalid field in declaration order.
C9_ChecksInFixedOrder ==
    TopObjectCase =>
        LET s == api.responseSchema.s
            rs == [i \in 1..Len(s.subs) |->
                     validateSchemaField(s.subs[i].v, s.subs[i].k, Get(body.v, s.subs[i].k))]
            bad == {i \in 1..Len(s.subs) : ~rs[i].ok} IN
        IF Undeclared(s, body.v) # {}
        THEN ~out.ok /\ IsExtraneousError(out.err) /\ out.calls = 0
        ELSE bad # {} =>
                ~out.ok /\ out.err = rs[CHOOSE i \in bad : \A j \in bad : i <= j].err

\* The status the wrapper's code paths give a request once its callbacks ran.
ExpectedStatus ==
    IF ~out.ok THEN 400
    ELSE IF settled = "rejected" THEN 500
    ELSE IF result.t = "number" THEN result.n
    ELSE IF result \in {Null, Undefined}
    THEN IF api.responseSchema.ref = emptySchema.ref THEN 204 ELSE 500
    ELSE IF isErrorResponse(result) THEN Get(result, "code").n
    ELSE 200

\* C10: the handler is invoked only after reviveRequest succeeded; a request
\* that reviveRequest rejects is answered 400 without the handler; no request
\* is answered twice, and once the wrapper's callbacks have run the request
\* has exactly one response: 400, the handler's numeric status, 204, the
\* handler's error code, 200, or 500 when the handler rejected or returned null
\* for an API whose response schema is not the empty-response schema.
C10_OneResponsePerRequest ==
    /\ handlerCalls <= 1
    /\ Len(responses) <= 1
    /\ handlerCalls = 1 => RevivedRequest /\ out.ok
    /\ RevivedRequest /\ ~out.ok => handlerCalls = 0 /\ responses = <<400>> /\ pc = "done"
    /\ RevivedRequest /\ out.ok => handlerCalls = 1
    /\ pc \in {"pending", "rejected"} => responses = <<>>
    /\ pc = "done" => responses = <<ExpectedStatus>>

\* A request was revived, the handler returned null for an API whose response
\* schema is not emptySchema, and the request was answered 500, once.
C10_Witness ==
    /\ pc = "done"
    /\ out.ok
    /\ handlerCalls = 1
    /\ settled = "resolved"
    /\ result = Null
    /\ api.responseSchema.ref # emptySchema.ref
    /\ responses = <<500>>

====
